---- MODULE Spec2Model ----
(***************************************************************************)
(* The interview session engine of backend/app/main.py (interview_agent)   *)
(* with its collaborators: the end-of-speech detector (vad.py), question   *)
(* retrieval (rag.py), speech synthesis (tts.py), transcription (asr.py)   *)
(* and the final evaluation (evaluation.py).                               *)
(*                                                                         *)
(* One session is one run of the coroutine interview_agent.  pc is the     *)
(* await at which the coroutine is suspended; every action is the code     *)
(* that runs from one await to the next.  The client and the network are   *)
(* the environment: the client chooses every inbound message and may       *)
(* disconnect at any time, the backends choose every reply.                *)
(*                                                                         *)
(* Scores are kept in tenths (7.5 is 75).  Byte strings are kept by their  *)
(* length and, for a full audio frame, by what the classifier says of it.  *)
(***************************************************************************)
EXTENDS Integers, Sequences, FiniteSets, TLC

\* ------------------------------------------------------------------ bounds
\* largest questionCount a client configures explicitly
MaxQuestionCount == 2
\* largest number of iterations of the turn loop in one session
MaxIters == 2
\* largest number of non-empty chunks the client sends in one recording
MaxChunks == 2

\* chunks of a long recording beyond the silence threshold
ExtraChunks == 2
\* largest number of chunks other than silence frames in a long recording
MaxInterruptions == 1
\* largest number of non-empty chunks of a recording with unclassifiable ones
MaxFrames == 3
\* largest number of characters of a text handed to the question extractor
MaxTextLen == 4
\* largest number of tokens of a text handed to the JSON extractor
MaxTokens == 4
\* largest number of frames another session of the process sends
MaxPeerFrames == 2
\* largest number of inbound messages waiting to be read
MaxQueued == 2

\* ------------------------------------------------------- program constants
DefaultQuestionCount == 5
max_silence_frames == 50
MinFrameBytes == 320
MinAudioBytes == 100

\* length of an undersized chunk sent by the modelled client
SmallChunkBytes == 64

Absent == "<absent>"
\* a visaType that is a JSON array or object: a Python list or dict
UnhashableVisaType == "<list>"
\* JSON null / Python None where a string is expected
Null == "<null>"

PLACEHOLDER_TRANSCRIPT == "I'm sorry, I couldn't transcribe your answer properly."

\* the head of each of the two lists of rag.py
SAMPLE_QUESTIONS ==
    [tourist |-> {"What is the purpose of your visit to our country?"},
     student |-> {"Which university have you been accepted to?"}]

\* str.strip() on the texts the modelled backends return
Strip(s) ==
    CASE s = "   " -> ""
      [] s = " Where are you traveling to? " -> "Where are you traveling to?"
      [] s = " I am visiting my sister. " -> "I am visiting my sister."
      [] OTHER -> s

RECURSIVE SumLen(_)
SumLen(chunks) ==
    IF chunks = <<>> THEN 0 ELSE Head(chunks).len + SumLen(Tail(chunks))

Last(s) == s[Len(s)]

\* inbound binary messages: the empty chunk, an undersized chunk, full frames
EmptyChunk == [len |-> 0, cls |-> "none"]
SmallChunk == [len |-> SmallChunkBytes, cls |-> "none"]
SpeechChunk == [len |-> MinFrameBytes, cls |-> "speech"]
SilenceChunk == [len |-> MinFrameBytes, cls |-> "silence"]
\* a frame on which vad.is_speech raises (vad.py:46, 60-62)
ErrorChunk == [len |-> MinFrameBytes, cls |-> "error"]
AudioChunks == {SmallChunk, SpeechChunk, SilenceChunk}
\* what websocket.receive_bytes() meets instead of a binary message: a text
\* frame (KeyError), the closed channel (WebSocketDisconnect), nothing yet
TextFrame == [len |-> 0, cls |-> "text"]
Closed == [len |-> 0, cls |-> "closed"]
NoInbound == [len |-> 0, cls |-> "nothing"]

\* the first inbound message
\* questionCount: present says the key is there, num that its value is a
\* JSON integer, v the integer
NoCount == [present |-> FALSE, num |-> FALSE, v |-> 0]
BinaryFirst == [frame |-> "bytes", json |-> "none", visaType |-> Absent,
                questionCount |-> NoCount]
InvalidJson == [frame |-> "text", json |-> "invalid", visaType |-> Absent,
                questionCount |-> NoCount]
JsonArray == [frame |-> "text", json |-> "array", visaType |-> Absent,
              questionCount |-> NoCount]
VisaTypes == {"tourist", "student", "business", UnhashableVisaType}
QuestionCounts ==
    {[present |-> TRUE, num |-> TRUE, v |-> n] : n \in (-1)..MaxQuestionCount}
\* the object {} that leaves every field to its default
EmptyObject == [frame |-> "text", json |-> "object", visaType |-> Absent,
                questionCount |-> NoCount]
\* an object whose questionCount is a JSON string or null
NonNumericCount == [frame |-> "text", json |-> "object", visaType |-> Absent,
                    questionCount |-> [present |-> TRUE, num |-> FALSE, v |-> 0]]
ConfigObjects ==
    {EmptyObject, NonNumericCount} \cup
    {[frame |-> "text", json |-> "object", visaType |-> vt, questionCount |-> qc] :
        vt \in VisaTypes, qc \in QuestionCounts}
FirstMessages == {BinaryFirst, InvalidJson, JsonArray} \cup ConfigObjects

\* dict.get(key, default)
Get(value, default) == IF value = Absent THEN default ELSE value

\* ------------------------------------------------------ question retrieval
StoreResults == {"raises", "no_documents", "documents"}
QuestionReplies ==
    {[status |-> "200", content |-> " Where are you traveling to? "],
     [status |-> "200", content |-> "   "],
     [status |-> "200", content |-> Null],
     [status |-> "500", content |-> ""],
     [status |-> "timeout", content |-> ""],
     [status |-> "exception", content |-> ""]}

Raised == [raised |-> TRUE, value |-> ""]
Returned(v) == [raised |-> FALSE, value |-> v]

\* SAMPLE_QUESTIONS.get(visa_type, SAMPLE_QUESTIONS["tourist"]) followed by
\* random.choice: the set of results, a TypeError for an unhashable key
\* the list SAMPLE_QUESTIONS.get(visa_type, SAMPLE_QUESTIONS["tourist"]) of a
\* category
DefaultQuestions(category) ==
    IF category \in DOMAIN SAMPLE_QUESTIONS
    THEN SAMPLE_QUESTIONS[category]
    ELSE SAMPLE_QUESTIONS["tourist"]

FallbackQuestion(visa_type) ==
    IF visa_type = UnhashableVisaType THEN {Raised}
    ELSE IF visa_type \in DOMAIN SAMPLE_QUESTIONS
         THEN {Returned(q) : q \in SAMPLE_QUESTIONS[visa_type]}
         ELSE {Returned(q) : q \in SAMPLE_QUESTIONS["tourist"]}

retrieve_question_from_chroma(visa_type, store_ok, key_ok, store, reply) ==
    IF ~store_ok \/ ~key_ok THEN FallbackQuestion(visa_type)
    ELSE IF store = "raises" THEN FallbackQuestion(visa_type)
    ELSE IF store = "no_documents" THEN FallbackQuestion(visa_type)
    ELSE IF reply.status = "200"
         THEN IF reply.content = Null
              THEN FallbackQuestion(visa_type)
              ELSE {Returned(Strip(reply.content))}
         ELSE FallbackQuestion(visa_type)

\* --------------------------------------------------------------- synthesis
TtsOutcomes == {"saved", "raises"}
synthesize_tts_KeepsAudio(outcome) == "mp3"
synthesize_tts(outcome) == IF outcome = "saved" THEN "mp3" ELSE ""

\* ----------------------------------------------------------- transcription
AsrReplies ==
    {[status |-> "200", text |-> " I am visiting my sister. "],
     [status |-> "500", text |-> ""],
     [status |-> "timeout", text |-> ""],
     [status |-> "exception", text |-> ""]}

whisper_transcribe_NoPlaceholder(audio_len, key_ok, reply) ==
    IF ~key_ok THEN PLACEHOLDER_TRANSCRIPT
    ELSE IF audio_len < MinAudioBytes THEN PLACEHOLDER_TRANSCRIPT
    ELSE Strip(reply.text)
whisper_transcribe(audio_len, key_ok, reply) ==
    IF ~key_ok THEN PLACEHOLDER_TRANSCRIPT
    ELSE IF audio_len < MinAudioBytes THEN PLACEHOLDER_TRANSCRIPT
    ELSE IF reply.status = "200" THEN Strip(reply.text)
    ELSE PLACEHOLDER_TRANSCRIPT

\* -------------------------------------------------------- final evaluation
\* JSON values of the metric keys of the backend's reply
Num(n) == [t |-> "num", v |-> n]
NumStr(n) == [t |-> "numstr", v |-> n]
NonNumeric == [t |-> "str", v |-> 0]
JsonNull == [t |-> "null", v |-> 0]
Missing == [t |-> "absent", v |-> 0]

MetricKeys == {"fluency", "confidence", "contentAccuracy", "responseTime"}

EMPTY_LOG_METRICS ==
    [fluency |-> 50, confidence |-> 50, contentAccuracy |-> 50, responseTime |-> 50]
EMPTY_LOG_FEEDBACK == "No interview data available for evaluation."
default_metrics ==
    [fluency |-> 70, confidence |-> 65, contentAccuracy |-> 75, responseTime |-> 80]
NoMetrics ==
    [fluency |-> 0, confidence |-> 0, contentAccuracy |-> 0, responseTime |-> 0]

FEEDBACK_EXCELLENT == "Excellent interview performance!"
FEEDBACK_GOOD == "Good interview performance."
FEEDBACK_POOR == "Your interview needs improvement."

generate_feedback_from_metrics(m) ==
    LET total == m.fluency + m.confidence + m.contentAccuracy + m.responseTime
    IN  IF total >= 4 * 80 THEN FEEDBACK_EXCELLENT
        ELSE IF total >= 4 * 60 THEN FEEDBACK_GOOD
        ELSE FEEDBACK_POOR

EvalReply(status, shape, fl, co, ca, rt, fb) ==
    [status |-> status, shape |-> shape, fluency |-> fl, confidence |-> co,
     content_accuracy |-> ca, response_time |-> rt, feedback |-> fb]
EvalReplies ==
    {EvalReply("200", "object", Num(85), Num(90), Num(80), Num(75), "You did well."),
     EvalReply("200", "object", Num(90), Missing, Missing, Missing, Absent),
     EvalReply("200", "object", Num(70), Num(65), Num(75), Num(80), Absent),
     EvalReply("200", "object", Num(150), Num(0), NumStr(80), Num(30), Absent),
     EvalReply("200", "object", Num(85), NonNumeric, Num(80), Num(75), "You did well."),
     EvalReply("200", "object", Num(85), Num(90), JsonNull, Num(75), Absent),
     EvalReply("200", "object", Num(85), Num(90), Num(80), Num(75), ""),
     EvalReply("200", "object", Num(85), Num(90), Num(80), Num(75), Null),
     EvalReply("200", "array", Missing, Missing, Missing, Missing, Absent),
     EvalReply("200", "not_json", Missing, Missing, Missing, Missing, Absent),
     EvalReply("500", "none", Missing, Missing, Missing, Missing, Absent),
     EvalReply("timeout", "none", Missing, Missing, Missing, Missing, Absent),
     EvalReply("exception", "none", Missing, Missing, Missing, Missing, Absent)}

\* float(evaluation.get(key, 7.0)) raises for a value that is no number
FloatRaises(x) == x.t \in {"str", "null"}
Float_NoDefault(x) == x.v
Float(x) == IF x.t = "absent" THEN 70 ELSE x.v

Evaluation(m, f) == [metrics |-> m, feedback |-> f]
DefaultEvaluation ==
    Evaluation(default_metrics, generate_feedback_from_metrics(default_metrics))

evaluate_session_Unguarded(session_log, key_ok, reply) ==
    IF session_log = <<>> THEN Evaluation(EMPTY_LOG_METRICS, EMPTY_LOG_FEEDBACK)
    ELSE IF ~key_ok THEN DefaultEvaluation
    ELSE IF reply.status # "200" THEN DefaultEvaluation
    ELSE LET metrics == [fluency |-> Float(reply.fluency),
                         confidence |-> Float(reply.confidence),
                         contentAccuracy |-> Float(reply.content_accuracy),
                         responseTime |-> Float(reply.response_time)]
         IN  Evaluation(metrics,
                        Get(reply.feedback, generate_feedback_from_metrics(metrics)))
evaluate_session(session_log, key_ok, reply) ==
    IF session_log = <<>> THEN Evaluation(EMPTY_LOG_METRICS, EMPTY_LOG_FEEDBACK)
    ELSE IF ~key_ok THEN DefaultEvaluation
    ELSE IF reply.status # "200" THEN DefaultEvaluation
    ELSE IF reply.shape # "object" THEN DefaultEvaluation
    ELSE IF \E x \in {reply.fluency, reply.confidence,
                      reply.content_accuracy, reply.response_time} : FloatRaises(x)
         THEN DefaultEvaluation
    ELSE LET metrics == [fluency |-> Float(reply.fluency),
                         confidence |-> Float(reply.confidence),
                         contentAccuracy |-> Float(reply.content_accuracy),
                         responseTime |-> Float(reply.response_time)]
         IN  Evaluation(metrics,
                        Get(reply.feedback, generate_feedback_from_metrics(metrics)))

\* ---------------------------------------------------- end-of-speech detector
\* vad.is_speech on the first frame of a chunk and the update of the counter
VadCount_NoReset(silence_frames, chunk) ==
    IF chunk.len < MinFrameBytes THEN silence_frames
    ELSE IF chunk.cls = "speech" THEN silence_frames
    ELSE IF chunk.cls = "silence" THEN silence_frames + 1
    ELSE silence_frames
VadCount_SpeechCounted(silence_frames, chunk) ==
    IF chunk.len < MinFrameBytes THEN silence_frames
    ELSE IF chunk.cls \in {"speech", "silence"} THEN silence_frames + 1
    ELSE silence_frames
VadCount_UnclassifiedResets(silence_frames, chunk) ==
    IF chunk.len >= MinFrameBytes /\ chunk.cls = "silence"
    THEN silence_frames + 1
    ELSE 0
VadCount(silence_frames, chunk) ==
    IF chunk.len < MinFrameBytes THEN silence_frames
    ELSE IF chunk.cls = "speech" THEN 0
    ELSE IF chunk.cls = "silence" THEN silence_frames + 1
    ELSE silence_frames

\* the break of the detector's loop after a classified chunk
VadBreak_Late(silence_frames, chunk) ==
    /\ chunk.len >= MinFrameBytes
    /\ chunk.cls \in {"speech", "silence"}
    /\ VadCount(silence_frames, chunk) > max_silence_frames
VadBreak(silence_frames, chunk) ==
    /\ chunk.len >= MinFrameBytes
    /\ chunk.cls \in {"speech", "silence"}
    /\ VadCount(silence_frames, chunk) >= max_silence_frames

\* ------------------------------------------------------- outbound messages
\* text is the question, the answerText, the feedback or the error message;
\* metrics is set in complete only.  The payload of the binary message is
\* audio_bytes at the time of the send and is not repeated in the record.
Msg(kind, text) == [kind |-> kind, text |-> text, metrics |-> NoMetrics]
QuestionMsg(q) == Msg("question", q)
AudioMsg == Msg("audio", "")
StartRecordMsg == Msg("start_record", "")
\* an acknowledgement without the transcript
AckMsg_NoText(a) == Msg("ack", "")
AckMsg(a) == Msg("ack", a)
TurnErrorMsg == Msg("error", "Error processing question")
EvalErrorMsg == Msg("error", "Error evaluating session")
JsonErrorMsg == Msg("error", "Invalid JSON format")
OuterErrorMsg == Msg("error", "An error occurred during the interview.")
CompleteMsg(m, f) == [kind |-> "complete", text |-> f, metrics |-> m]

\* what websocket.send_* raises once the client is gone
SendFailures == {"WebSocketDisconnect", "RuntimeError"}

\* the configurations of the process: (visa_collection, MISTRAL_API_KEY,
\* GROQ_API_KEY) as set when the modules are imported
Environments ==
    {<<TRUE, TRUE, TRUE>>, <<TRUE, FALSE, TRUE>>, <<FALSE, TRUE, FALSE>>}

Turn(q, a, ts) == [question |-> q, answer |-> a, timestamp |-> ts]

\* ------------------------------------------------------------------ state
VARIABLES
    pc,                  \* the await interview_agent is suspended at
    connected,           \* the client has not closed the channel
    visa_collection,     \* rag.visa_collection is not None
    MISTRAL_API_KEY,     \* the key is set (rag.py, evaluation.py)
    GROQ_API_KEY,        \* the key is set (asr.py)
    visa_type,           \* config.get("visaType", "tourist")
    question_count,      \* config.get("questionCount", 5)
    remaining_questions, \* session.remaining_questions
    session_log,         \* session.session_log
    current_question,    \* session.current_question (and the local question)
    audio_bytes,         \* the synthesized audio of the turn
    audio_chunks,        \* the chunks collected from the detector
    silence_frames,      \* the detector's counter
    detector,            \* the generator: "idle", "running" or "ended"
    inbound,             \* what the detector's last receive_bytes() met
    answer_text,         \* the transcript of the turn
    evaluation,          \* (metrics, feedback) returned by evaluate_session
    exc,                 \* the exception the handler at main.py:145 caught
    sent,                \* the outbound messages delivered, in order
    iter,                \* iterations of the turn loop started so far
    calls,               \* collaborator calls made so far, by collaborator
    dropped,             \* the channel closed while the detector was reading
    after_drop,          \* calls and attempted sends after that, in order
    nominal,             \* no collaborator has failed, the client has answered
    eval_reply,          \* the scoring backend's reply to the final evaluation
    extractor,           \* the function of utils.py that is applied
    text,                \* the text it is applied to
    extracted,           \* what it returned
    again,               \* what it returned when applied to its own result
    vad,                 \* the state of the classifier vad.vad of the process
    peer,                \* the detector of another session of the process
    solo,                \* this session's detector with a classifier of its own
    queue                \* the inbound messages the detector has not read yet

vars == <<pc, connected, visa_collection, MISTRAL_API_KEY, GROQ_API_KEY,
          visa_type, question_count, remaining_questions, session_log,
          current_question, audio_bytes, audio_chunks, silence_frames,
          detector, inbound, answer_text, evaluation, exc, sent, iter, calls,
          dropped, after_drop, nominal, eval_reply, extractor, text,
          extracted, again, vad, peer, solo, queue>>

\* the variables of one session of interview_agent
interview == <<pc, connected, visa_collection, MISTRAL_API_KEY, GROQ_API_KEY,
               visa_type, question_count, remaining_questions, session_log,
               current_question, audio_bytes, audio_chunks, silence_frames,
               detector, inbound, answer_text, evaluation, exc, sent, iter,
               calls, dropped, after_drop, nominal, eval_reply>>
extraction == <<extractor, text, extracted, again>>
sharing == <<vad, peer, solo, queue>>
\* what no step of the session engine changes: the configuration of the
\* process, the extractors' variables, the classifier and the other session
env == <<visa_collection, MISTRAL_API_KEY, GROQ_API_KEY, extraction, sharing>>
config == <<visa_type, question_count>>
session == <<remaining_questions, session_log>>
recording == <<audio_chunks, silence_frames, detector, inbound>>

Terminal == {"Completed", "Errored"}
NoEvaluation == Evaluation(NoMetrics, "")
NoReply == EvalReply("none", "none", Missing, Missing, Missing, Missing, Absent)
NoCalls == [retrieve |-> 0, synthesize |-> 0, transcribe |-> 0, evaluate |-> 0]

Called(name) == [calls EXCEPT ![name] = @ + 1]
\* the record of what happens once the channel closed during a recording
Note(event) == IF dropped THEN Append(after_drop, event) ELSE after_drop

\* no extractor is applied
NotRun == [done |-> FALSE, value |-> <<>>]
Result(v) == [done |-> TRUE, value |-> v]
NoExtraction ==
    /\ extractor = "none"
    /\ text = <<>>
    /\ extracted = NotRun
    /\ again = NotRun

\* no other session is recording, no inbound message is kept
NoSharing ==
    /\ queue = <<>>
    /\ vad = 0
    /\ peer = [running |-> FALSE, silence_frames |-> 0, frames |-> 0]
    /\ solo = [running |-> FALSE, silence_frames |-> 0, vad |-> 0]

\* the session as interview_agent finds it when the channel is accepted
SessionInit ==
    /\ pc = "receive_config"
    /\ connected = TRUE
    /\ \E e \in Environments :
          /\ visa_collection = e[1]
          /\ MISTRAL_API_KEY = e[2]
          /\ GROQ_API_KEY = e[3]
    /\ visa_type = ""
    /\ question_count = 0
    /\ remaining_questions = 0
    /\ session_log = <<>>
    /\ current_question = ""
    /\ audio_bytes = ""
    /\ audio_chunks = <<>>
    /\ silence_frames = 0
    /\ detector = "idle"
    /\ inbound = NoInbound
    /\ answer_text = ""
    /\ evaluation = NoEvaluation
    /\ exc = "none"
    /\ sent = <<>>
    /\ iter = 0
    /\ calls = NoCalls
    /\ dropped = FALSE
    /\ after_drop = <<>>
    /\ nominal = TRUE
    /\ eval_reply = NoReply

Init == SessionInit /\ NoExtraction /\ NoSharing

\* the number of messages of one kind in a sequence of messages
CountKind(msgs, kind) == Cardinality({i \in 1..Len(msgs) : msgs[i].kind = kind})

\* the condition of the turn loop, main.py:91
LoopCondition_Inclusive(remaining) == remaining >= 0
LoopCondition_StopsEarly(remaining) == remaining > 1
LoopCondition(remaining) == remaining > 0

\* session.remaining_questions -= 1, main.py:135
Decrement_Keeps(remaining) == remaining
Decrement(remaining) == remaining - 1

\* the locals of a turn are cleared once they are dead: audio_bytes after its
\* send, the chunks after the transcription, the rest at the end of the turn
ClearTurn ==
    /\ audio_bytes' = ""
    /\ audio_chunks' = <<>>
    /\ silence_frames' = 0
    /\ detector' = "idle"
    /\ inbound' = NoInbound
    /\ answer_text' = ""
    /\ exc' = "none"

\* websocket.send_* inside the try of a turn: the message is delivered, or
\* the send raises and the handler at main.py:145 catches it
SendInTurn_Swapped(msg, next) ==
    /\ after_drop' = Note(msg.kind)
    /\ IF connected
       THEN /\ sent' = Append(sent, IF msg = AudioMsg THEN StartRecordMsg
                                    ELSE IF msg = StartRecordMsg THEN AudioMsg
                                    ELSE msg)
            /\ pc' = next
            /\ exc' = exc
       ELSE /\ sent' = sent
            /\ pc' = "turn_except"
            /\ exc' = "channel"
SendInTurn(msg, next) ==
    /\ after_drop' = Note(msg.kind)
    /\ IF connected
       THEN /\ sent' = Append(sent, msg)
            /\ pc' = next
            /\ exc' = exc
       ELSE /\ sent' = sent
            /\ pc' = "turn_except"
            /\ exc' = "channel"

\* ----------------------------------------------------------------- actions
\* the client closes the channel
Disconnect ==
    /\ connected
    /\ pc \notin Terminal
    /\ connected' = FALSE
    /\ nominal' = FALSE
    /\ UNCHANGED <<pc, env, config, session, current_question, audio_bytes,
                   recording, answer_text, evaluation, exc, sent, iter, calls,
                   dropped, after_drop, eval_reply>>

\* main.py:78-91: the first message, the session, and the first evaluation of
\* the loop condition for a questionCount that cannot be compared with 0
ReceiveConfig ==
    /\ pc = "receive_config"
    /\ \/ /\ ~connected
          /\ pc' = "Errored"
          /\ UNCHANGED <<config, remaining_questions>>
       \/ /\ connected
          /\ \E m \in FirstMessages :
                IF m.frame = "bytes" \/ m.json = "array"
                THEN /\ pc' = "outer_error"
                     /\ UNCHANGED <<config, remaining_questions>>
                ELSE IF m.json = "invalid"
                THEN /\ pc' = "json_error"
                     /\ UNCHANGED <<config, remaining_questions>>
                ELSE IF m.questionCount.present /\ ~m.questionCount.num
                THEN \* TypeError of the comparison at main.py:91
                     /\ pc' = "outer_error"
                     /\ UNCHANGED <<config, remaining_questions>>
                ELSE /\ visa_type' = Get(m.visaType, "tourist")
                     /\ question_count' = IF m.questionCount.present
                                          THEN m.questionCount.v
                                          ELSE DefaultQuestionCount
                     /\ remaining_questions' = question_count'
                     /\ pc' = "loop_head"
    /\ nominal' = (nominal /\ pc' = "loop_head")
    /\ UNCHANGED <<connected, env, session_log, current_question, audio_bytes,
                   recording, answer_text, evaluation, exc, sent, iter, calls,
                   dropped, after_drop, eval_reply>>

\* main.py:91
LoopHead ==
    /\ pc = "loop_head"
    /\ IF LoopCondition(remaining_questions)
       THEN /\ iter < MaxIters
            /\ iter' = iter + 1
            /\ pc' = "retrieve"
       ELSE /\ iter' = iter
            /\ pc' = "evaluate"
    /\ inbound' = NoInbound
    /\ UNCHANGED <<connected, env, config, session, current_question,
                   audio_bytes, audio_chunks, silence_frames, detector,
                   answer_text, evaluation, exc, sent, calls, dropped,
                   after_drop, nominal, eval_reply>>

QuestionGenerated(store, reply) ==
    /\ visa_collection /\ MISTRAL_API_KEY
    /\ store = "documents"
    /\ reply.status = "200"
    /\ reply.content # Null
    /\ Strip(reply.content) # ""

\* main.py:93-97
Retrieve ==
    /\ pc = "retrieve"
    /\ calls' = Called("retrieve")
    /\ after_drop' = Note("retrieve")
    /\ \E store \in StoreResults, reply \in QuestionReplies :
         /\ \E r \in retrieve_question_from_chroma(visa_type, visa_collection,
                                                   MISTRAL_API_KEY, store, reply) :
               IF r.raised
               THEN /\ pc' = "turn_except"
                    /\ exc' = "collaborator"
                    /\ current_question' = current_question
               ELSE /\ pc' = "send_question"
                    /\ exc' = exc
                    /\ current_question' = r.value
         /\ nominal' = (nominal /\ QuestionGenerated(store, reply))
    /\ UNCHANGED <<connected, env, config, session, audio_bytes, recording,
                   answer_text, evaluation, sent, iter, dropped, eval_reply>>

\* main.py:100
SendQuestion ==
    /\ pc = "send_question"
    /\ SendInTurn(QuestionMsg(current_question), "synthesize")
    /\ UNCHANGED <<connected, env, config, session, current_question,
                   audio_bytes, recording, answer_text, evaluation, iter, calls,
                   dropped, nominal, eval_reply>>

\* main.py:102-105
Synthesize ==
    /\ pc = "synthesize"
    /\ calls' = Called("synthesize")
    /\ after_drop' = Note("synthesize")
    /\ \E outcome \in TtsOutcomes :
         /\ audio_bytes' = synthesize_tts(outcome)
         /\ nominal' = (nominal /\ outcome = "saved")
    /\ pc' = "send_audio"
    /\ UNCHANGED <<connected, env, config, session, current_question, recording,
                   answer_text, evaluation, exc, sent, iter, dropped, eval_reply>>

\* main.py:106
SendAudio ==
    /\ pc = "send_audio"
    /\ SendInTurn(AudioMsg, "send_start_record")
    /\ audio_bytes' = ""
    /\ UNCHANGED <<connected, env, config, session, current_question,
                   recording, answer_text, evaluation, iter, calls, dropped,
                   nominal, eval_reply>>

\* a detector whose counter starts at one
SendStartRecord_CountsFromOne ==
    /\ pc = "send_start_record"
    /\ SendInTurn(StartRecordMsg, "recording")
    /\ IF connected
       THEN /\ audio_chunks' = <<>>
            /\ silence_frames' = 1
            /\ detector' = "running"
            /\ inbound' = NoInbound
       ELSE UNCHANGED recording
    /\ UNCHANGED <<connected, env, config, session, current_question,
                   audio_bytes, answer_text, evaluation, iter, calls, dropped,
                   nominal, eval_reply>>

\* main.py:108-115, vad.py:25-26
SendStartRecord ==
    /\ pc = "send_start_record"
    /\ SendInTurn(StartRecordMsg, "recording")
    /\ IF connected
       THEN /\ audio_chunks' = <<>>
            /\ silence_frames' = 0
            /\ detector' = "running"
            /\ inbound' = NoInbound
       ELSE UNCHANGED recording
    /\ UNCHANGED <<connected, env, config, session, current_question,
                   audio_bytes, answer_text, evaluation, iter, calls, dropped,
                   nominal, eval_reply>>

\* the detector's generator is exhausted: main.py:119-121 skips the turn
\* when nothing was collected, and goes on to transcribe otherwise
EndOfRecording_NoSkip(chunks) ==
    /\ audio_chunks' = chunks
    /\ pc' = "transcribe"
    /\ detector' = "ended"
    /\ silence_frames' = silence_frames
    /\ audio_bytes' = audio_bytes
EndOfRecording(chunks) ==
    /\ audio_chunks' = chunks
    /\ IF chunks = <<>>
       THEN /\ pc' = "loop_head"
            /\ detector' = "idle"
            /\ silence_frames' = 0
            /\ audio_bytes' = ""
       ELSE /\ pc' = "transcribe"
            /\ detector' = "ended"
            /\ silence_frames' = silence_frames
            /\ audio_bytes' = audio_bytes

\* audio_chunks.append(chunk), main.py:116; of a recording longer than keep
\* chunks the model keeps the first keep chunks, the code keeps them all
Collect_Prepends(chunks, chunk, keep) ==
    IF Len(chunks) < keep THEN <<chunk>> \o chunks ELSE chunks
Collect(chunks, chunk, keep) ==
    IF Len(chunks) < keep THEN Append(chunks, chunk) ELSE chunks

\* one websocket.receive_bytes() of the detector and what follows it up to
\* the next one: vad.py:30-65, main.py:115-121.  Offered is the set of
\* non-empty chunks the client may send now, keep the number of chunks of
\* which the model keeps the list.
DetectWith(Offered, keep) ==
    /\ pc = "recording"
    /\ \/ \* the channel is closed: WebSocketDisconnect, caught at vad.py:64
          /\ ~connected
          /\ inbound' = Closed
          /\ EndOfRecording(audio_chunks)
          /\ dropped' = TRUE
          /\ nominal' = FALSE
       \/ \* a text frame: KeyError, caught at vad.py:64
          /\ connected
          /\ inbound' = TextFrame
          /\ EndOfRecording(audio_chunks)
          /\ dropped' = dropped
          /\ nominal' = FALSE
       \/ \* the empty chunk: vad.py:34-35
          /\ connected
          /\ inbound' = EmptyChunk
          /\ EndOfRecording(audio_chunks)
          /\ dropped' = dropped
          /\ nominal' = (nominal /\ audio_chunks # <<>>)
       \/ \* a chunk: yielded, appended at main.py:116, then classified
          /\ connected
          /\ \E chunk \in Offered :
                /\ inbound' = chunk
                /\ IF VadBreak(silence_frames, chunk)
                   THEN EndOfRecording(Collect(audio_chunks, chunk, keep))
                   ELSE /\ audio_chunks' = Collect(audio_chunks, chunk, keep)
                        /\ silence_frames' = VadCount(silence_frames, chunk)
                        /\ UNCHANGED <<pc, detector, audio_bytes>>
          /\ UNCHANGED <<dropped, nominal>>
    /\ UNCHANGED <<connected, visa_collection, MISTRAL_API_KEY, GROQ_API_KEY,
                   extraction, config, session, current_question, answer_text,
                   evaluation, exc, sent, iter, calls, after_drop, eval_reply>>

\* a recording of at most MaxChunks non-empty chunks
Detect ==
    /\ DetectWith(IF Len(audio_chunks) < MaxChunks THEN AudioChunks ELSE {},
                  MaxChunks)
    /\ UNCHANGED sharing

\* main.py:127-135
Transcribe ==
    /\ pc = "transcribe"
    /\ calls' = Called("transcribe")
    /\ after_drop' = Note("transcribe")
    /\ \E reply \in AsrReplies :
         /\ answer_text' = whisper_transcribe(SumLen(audio_chunks), GROQ_API_KEY, reply)
         /\ nominal' = (/\ nominal
                        /\ GROQ_API_KEY
                        /\ SumLen(audio_chunks) >= MinAudioBytes
                        /\ reply.status = "200")
    /\ session_log' = Append(session_log, Turn(current_question, answer_text', iter))
    /\ remaining_questions' = Decrement(remaining_questions)
    /\ pc' = "send_ack"
    /\ audio_chunks' = <<>>
    /\ silence_frames' = 0
    /\ inbound' = NoInbound
    /\ audio_bytes' = ""
    /\ UNCHANGED <<connected, env, config, current_question, detector,
                   evaluation, exc, sent, iter, dropped, eval_reply>>

\* main.py:137-143
SendAck ==
    /\ pc = "send_ack"
    /\ after_drop' = Note("ack")
    /\ IF connected
       THEN /\ sent' = Append(sent, AckMsg(answer_text))
            /\ pc' = "loop_head"
            /\ ClearTurn
       ELSE /\ sent' = sent
            /\ pc' = "turn_except"
            /\ exc' = "channel"
            /\ UNCHANGED <<audio_bytes, recording, answer_text>>
    /\ UNCHANGED <<connected, env, config, session, current_question,
                   evaluation, iter, calls, dropped, nominal, eval_reply>>

\* the handler of a turn, main.py:145-152: the error notice is sent and the
\* loop goes on; when that send raises, the handlers at main.py:174-191 run
TurnExcept_Reraises ==
    /\ pc = "turn_except"
    /\ after_drop' = Note("error")
    /\ IF connected
       THEN /\ sent' = Append(sent, TurnErrorMsg)
            /\ pc' = "outer_error"
       ELSE /\ sent' = sent
            /\ \E failure \in SendFailures :
                  pc' = IF failure = "WebSocketDisconnect"
                        THEN "Errored" ELSE "outer_error"
    /\ ClearTurn
    /\ nominal' = FALSE
    /\ UNCHANGED <<connected, env, config, session, current_question,
                   evaluation, iter, calls, dropped, eval_reply>>

\* a handler that gives the failed question up
TurnExcept_Consumes ==
    /\ pc = "turn_except"
    /\ after_drop' = Note("error")
    /\ IF connected
       THEN /\ sent' = Append(sent, TurnErrorMsg)
            /\ pc' = "loop_head"
       ELSE /\ sent' = sent
            /\ \E failure \in SendFailures :
                  pc' = IF failure = "WebSocketDisconnect"
                        THEN "Errored" ELSE "outer_error"
    /\ ClearTurn
    /\ nominal' = FALSE
    /\ remaining_questions' = Decrement(remaining_questions)
    /\ UNCHANGED <<connected, env, config, session_log, current_question,
                   evaluation, iter, calls, dropped, eval_reply>>

TurnExcept ==
    /\ pc = "turn_except"
    /\ after_drop' = Note("error")
    /\ IF connected
       THEN /\ sent' = Append(sent, TurnErrorMsg)
            /\ pc' = "loop_head"
       ELSE /\ sent' = sent
            /\ \E failure \in SendFailures :
                  pc' = IF failure = "WebSocketDisconnect"
                        THEN "Errored" ELSE "outer_error"
    /\ ClearTurn
    /\ nominal' = FALSE
    /\ UNCHANGED <<connected, env, config, session, current_question,
                   evaluation, iter, calls, dropped, eval_reply>>

HealthyEvaluation(reply) ==
    /\ reply.status = "200"
    /\ reply.shape = "object"
    /\ \A x \in {reply.fluency, reply.confidence,
                 reply.content_accuracy, reply.response_time} : ~FloatRaises(x)
    /\ reply.feedback \notin {"", Null}

\* main.py:154-158; the backend is asked only for a non-empty log with a key
Evaluate ==
    /\ pc = "evaluate"
    /\ calls' = Called("evaluate")
    /\ after_drop' = Note("evaluate")
    /\ \E reply \in IF session_log # <<>> /\ MISTRAL_API_KEY
                    THEN EvalReplies ELSE {NoReply} :
         /\ eval_reply' = reply
         /\ evaluation' = evaluate_session(session_log, MISTRAL_API_KEY, reply)
         /\ nominal' = (nominal /\ HealthyEvaluation(reply))
    /\ pc' = "send_complete"
    /\ UNCHANGED <<connected, env, config, session, current_question,
                   audio_bytes, recording, answer_text, exc, sent, iter,
                   dropped>>

\* a handler that falls into its error notice after the complete message
SendComplete_ThenNotice ==
    /\ pc = "send_complete"
    /\ after_drop' = Note("complete")
    /\ IF connected
       THEN /\ sent' = Append(sent, CompleteMsg(evaluation.metrics, evaluation.feedback))
            /\ pc' = "eval_except"
            /\ exc' = exc
       ELSE /\ sent' = sent
            /\ pc' = "eval_except"
            /\ exc' = "channel"
    /\ UNCHANGED <<connected, env, config, session, current_question,
                   audio_bytes, recording, answer_text, evaluation, iter, calls,
                   dropped, nominal, eval_reply>>

\* main.py:160-165
SendComplete ==
    /\ pc = "send_complete"
    /\ after_drop' = Note("complete")
    /\ IF connected
       THEN /\ sent' = Append(sent, CompleteMsg(evaluation.metrics, evaluation.feedback))
            /\ pc' = "Completed"
            /\ exc' = exc
       ELSE /\ sent' = sent
            /\ pc' = "eval_except"
            /\ exc' = "channel"
    /\ UNCHANGED <<connected, env, config, session, current_question,
                   audio_bytes, recording, answer_text, evaluation, iter, calls,
                   dropped, nominal, eval_reply>>

\* main.py:166-172
EvalExcept ==
    /\ pc = "eval_except"
    /\ after_drop' = Note("error")
    /\ IF connected
       THEN /\ sent' = Append(sent, EvalErrorMsg)
            /\ pc' = "Errored"
       ELSE /\ sent' = sent
            /\ \E failure \in SendFailures :
                  pc' = IF failure = "WebSocketDisconnect"
                        THEN "Errored" ELSE "outer_error"
    /\ exc' = "none"
    /\ UNCHANGED <<connected, env, config, session, current_question,
                   audio_bytes, recording, answer_text, evaluation, iter, calls,
                   dropped, nominal, eval_reply>>

\* main.py:176-181: the notice is sent outside any try
JsonError ==
    /\ pc = "json_error"
    /\ sent' = IF connected THEN Append(sent, JsonErrorMsg) ELSE sent
    /\ pc' = "Errored"
    /\ UNCHANGED <<connected, env, config, session, current_question,
                   audio_bytes, recording, answer_text, evaluation, exc, iter,
                   calls, dropped, after_drop, nominal, eval_reply>>

\* main.py:182-191: the best-effort notice
OuterError ==
    /\ pc = "outer_error"
    /\ after_drop' = Note("error")
    /\ sent' = IF connected THEN Append(sent, OuterErrorMsg) ELSE sent
    /\ pc' = "Errored"
    /\ UNCHANGED <<connected, env, config, session, current_question,
                   audio_bytes, recording, answer_text, evaluation, exc, iter,
                   calls, dropped, nominal, eval_reply>>

Next ==
    \/ Disconnect
    \/ ReceiveConfig
    \/ LoopHead
    \/ Retrieve
    \/ SendQuestion
    \/ Synthesize
    \/ SendAudio
    \/ SendStartRecord
    \/ Detect
    \/ Transcribe
    \/ SendAck
    \/ TurnExcept
    \/ Evaluate
    \/ SendComplete
    \/ EvalExcept
    \/ JsonError
    \/ OuterError

Spec == Init /\ [][Next]_vars

TypeOK ==
    /\ pc \in {"receive_config", "loop_head", "retrieve", "send_question",
               "synthesize", "send_audio", "send_start_record", "recording",
               "transcribe", "send_ack", "turn_except", "evaluate",
               "send_complete", "eval_except", "json_error", "outer_error",
               "Completed", "Errored"}
    /\ connected \in BOOLEAN
    /\ remaining_questions \in Int
    /\ Len(audio_chunks) <= MaxChunks
    /\ silence_frames \in 0..max_silence_frames
    /\ detector \in {"idle", "running", "ended"}
    /\ iter \in 0..MaxIters

\* ------------------------------------------------------ response extraction
\* utils.py, on texts of at most MaxTextLen characters: a period, a newline,
\* a space, a question mark, a letter
Chars == {".", "\n", " ", "?", "a"}
Whitespace == {" ", "\n"}
Texts == UNION {[1..n -> Chars] : n \in 0..MaxTextLen}

Least(S) == CHOOSE x \in S : \A y \in S : x <= y
Greatest(S) == CHOOSE x \in S : \A y \in S : x >= y

\* str.strip()
StripChars(t) ==
    LET kept == {i \in 1..Len(t) : t[i] \notin Whitespace}
    IN  IF kept = {} THEN <<>> ELSE SubSeq(t, Least(kept), Greatest(kept))

NoMatch == [matched |-> FALSE, group |-> <<>>]
Match(g) == [matched |-> TRUE, group |-> g]

\* the white space \s* may take from position p
SpaceRun(t, p) ==
    Greatest({k \in 0..(Len(t) - p + 1) :
                 \A i \in p..(p + k - 1) : t[i] \in Whitespace})

\* the question marks [^\.]+\? may end at when the group starts at g
QuestionEnds(t, g) ==
    {q \in (g + 1)..Len(t) :
        /\ t[q] = "?"
        /\ \A i \in g..(q - 1) : t[i] # "."}

\* \s*([^\.]+\?) matched at position p, both quantifiers greedy
MatchAfter(t, p) ==
    LET ks == {k \in 0..SpaceRun(t, p) : QuestionEnds(t, p + k) # {}}
    IN  IF ks = {} THEN NoMatch
        ELSE LET g == p + Greatest(ks)
             IN  Match(SubSeq(t, g, Greatest(QuestionEnds(t, g))))

\* re.search(r'(?:^|[\.\n])\s*([^\.]+\?)', text): the leftmost match
QuestionSearch(t) ==
    LET after == {1} \cup {i + 1 : i \in {j \in 1..Len(t) : t[j] \in {".", "\n"}}}
        ps == {p \in after : MatchAfter(t, p).matched}
    IN  IF ps = {} THEN NoMatch ELSE MatchAfter(t, Least(ps))

extract_question_from_text(t) ==
    IF QuestionSearch(t).matched
    THEN StripChars(QuestionSearch(t).group)
    ELSE StripChars(t)

\* Texts of at most MaxTokens tokens for extract_json_from_text: the fences,
\* the braces and prose.
\* (a fence is written ~~~ here, for the three backquotes of the text)
FenceJson == "~~~json\n"
Fence == "~~~\n"
FenceEnd == "\n~~~"
BraceMember == "{\"k\": 1"
Brace == "{"
BraceEnd == "}"
Prose == "no json here"
\* a JSON text that is no object
JsonList == "[1]"
Tokens ==
    {FenceJson, Fence, FenceEnd, BraceMember, Brace, BraceEnd, Prose, JsonList}
JsonTexts == UNION {[1..n -> Tokens] : n \in 0..MaxTokens}

\* the objects these texts hold: {"k": 1} and {}, as lists of members
\* (a dict is a list of records with a key)
Member == [key |-> "k", value |-> 1]
EmptyObject_ == <<>>

\* json.loads: the two objects, the list [1] (as the list of its items),
\* and a JSONDecodeError for every other text
json_loads(t) ==
    IF t = <<BraceMember, BraceEnd>> THEN Returned(<<Member>>)
    ELSE IF t = <<Brace, BraceEnd>> THEN Returned(EmptyObject_)
    ELSE IF t = <<JsonList>> THEN Returned(<<[item |-> 1]>>)
    ELSE Raised

\* json.dumps of an object
json_dumps(obj) ==
    IF obj = <<>> THEN <<Brace, BraceEnd>>
    ELSE IF "key" \in DOMAIN obj[1] THEN <<BraceMember, BraceEnd>>
    ELSE <<JsonList>>

\* re.search of the fence pattern, with re.DOTALL (utils.py:76): the leftmost
\* opening fence, tagged or not, after which a closing fence follows, and the
\* content up to the nearest one.  The characters decide, not the tokens: the
\* backquotes of a closing fence with the newline of the next closing fence
\* are an opening fence too, and the newline that ends an opening fence with
\* the backquotes of the next opening fence are a closing fence.
FencedBlock(t) ==
    LET opens(i) ==
            \/ t[i] \in {FenceJson, Fence}
            \/ t[i] = FenceEnd /\ i < Len(t) /\ t[i + 1] = FenceEnd
        from(i) == IF t[i] = FenceEnd THEN i + 2 ELSE i + 1
        closes(j) ==
            \/ t[j] = FenceEnd
            \/ /\ t[j] \in {FenceJson, Fence}
               /\ j < Len(t)
               /\ t[j + 1] \in {FenceJson, Fence}
        opened == {i \in 1..Len(t) :
                      opens(i) /\ \E j \in from(i)..Len(t) : closes(j)}
    IN  IF opened = {} THEN NoMatch
        ELSE LET i == Least(opened)
                 j == Least({k \in from(i)..Len(t) : closes(k)})
             IN  Match(SubSeq(t, i + 1, IF t[j] = FenceEnd THEN j - 1 ELSE j))

\* re.search(r'\{.*\}', text, re.DOTALL): from the first opening brace to
\* the last closing brace
BraceSpan(t) ==
    LET opening == {i \in 1..Len(t) : t[i] \in {BraceMember, Brace}}
    IN  IF opening = {} THEN NoMatch
        ELSE LET a == Least(opening)
                 closing == {i \in (a + 1)..Len(t) : t[i] = BraceEnd}
             IN  IF closing = {} THEN NoMatch
                 ELSE Match(SubSeq(t, a, Greatest(closing)))

extract_json_from_text(t) ==
    IF FencedBlock(t).matched /\ ~json_loads(FencedBlock(t).group).raised
    THEN json_loads(FencedBlock(t).group).value
    ELSE IF BraceSpan(t).matched /\ ~json_loads(BraceSpan(t).group).raised
    THEN json_loads(BraceSpan(t).group).value
    ELSE EmptyObject_

\* The extractors applied to a text, and then to what they returned.
ExtractInit ==
    /\ SessionInit
    /\ visa_collection /\ MISTRAL_API_KEY /\ GROQ_API_KEY
    /\ NoSharing
    /\ \/ extractor = "question" /\ text \in Texts
       \/ extractor = "json" /\ text \in JsonTexts
    /\ extracted = NotRun
    /\ again = NotRun

ExtractQuestion ==
    /\ extractor = "question"
    /\ ~extracted.done
    /\ extracted' = Result(extract_question_from_text(text))
    /\ UNCHANGED <<interview, sharing, extractor, text, again>>

ExtractQuestionAgain ==
    /\ extractor = "question"
    /\ extracted.done
    /\ ~again.done
    /\ again' = Result(extract_question_from_text(extracted.value))
    /\ UNCHANGED <<interview, sharing, extractor, text, extracted>>

ExtractJson ==
    /\ extractor = "json"
    /\ ~extracted.done
    /\ extracted' = Result(extract_json_from_text(text))
    /\ UNCHANGED <<interview, sharing, extractor, text, again>>

\* the extractor applied to the serialised form of what it returned
ExtractJsonAgain ==
    /\ extractor = "json"
    /\ extracted.done
    /\ ~again.done
    /\ again' = Result(extract_json_from_text(json_dumps(extracted.value)))
    /\ UNCHANGED <<interview, sharing, extractor, text, extracted>>

ExtractSpec ==
    /\ ExtractInit
    /\ [][\/ ExtractQuestion
          \/ ExtractQuestionAgain
          \/ ExtractJson
          \/ ExtractJsonAgain]_vars

\* ------------------------------------------------- calls that never return
\* The session with collaborators that may never respond.  A call made with
\* a timeout returns: the transcription (asr.py:43) and the final evaluation
\* (evaluation.py:84) are fair, and so is a retrieval that consults neither
\* the store nor the generation backend (rag.py:68-73).  The store query
\* (rag.py:78-81) and the synthesis (tts.py:27-33) are made without a
\* timeout, so nothing makes them return.
TimeoutSpec ==
    /\ Init
    /\ [][Next]_vars
    /\ WF_vars(Transcribe)
    /\ WF_vars(Evaluate)
    /\ WF_vars(Retrieve /\ ~(visa_collection /\ MISTRAL_API_KEY))

\* ------------------------------------------------ a session of any length
\* The loop of main.py:91 has no counter of its own: iter, sent and calls are
\* the history of a session, which the program does not hold.  Past MaxIters
\* iterations the history is begun again, so that a loop which the program
\* can repeat is a cycle of states here.
LoopAgain ==
    /\ pc = "loop_head"
    /\ LoopCondition(remaining_questions)
    /\ iter = MaxIters
    /\ pc' = "retrieve"
    /\ sent' = <<>>
    /\ calls' = NoCalls
    /\ inbound' = NoInbound
    /\ UNCHANGED <<connected, env, config, session, current_question,
                   audio_bytes, audio_chunks, silence_frames, detector,
                   answer_text, evaluation, exc, iter, dropped, after_drop,
                   nominal, eval_reply>>

\* the session never stops while a step is possible: the channel delivers or
\* closes and each collaborator call returns or raises.  The client closes
\* the channel at most once, so the steps taken for ever are the handler's.
FairSpec ==
    Init /\ [][Next \/ LoopAgain]_vars /\ WF_vars(Next \/ LoopAgain)

\* ----------------------------------------------------- one long recording
\* The detector alone, over recordings long enough to reach the threshold:
\* the session is taken after the start_record of the first turn of a
\* one-question session in which retrieval and synthesis succeeded.
RecordingOf(count) ==
    /\ NoExtraction
    /\ pc = "recording"
    /\ connected = TRUE
    /\ visa_collection = TRUE
    /\ MISTRAL_API_KEY = TRUE
    /\ GROQ_API_KEY = TRUE
    /\ visa_type = "tourist"
    /\ question_count = count
    /\ remaining_questions = count
    /\ session_log = <<>>
    /\ current_question = "Where are you traveling to?"
    /\ audio_bytes = ""
    /\ audio_chunks = <<>>
    /\ silence_frames = 0
    /\ detector = "running"
    /\ inbound = NoInbound
    /\ answer_text = ""
    /\ evaluation = NoEvaluation
    /\ exc = "none"
    /\ sent = <<QuestionMsg("Where are you traveling to?"), AudioMsg, StartRecordMsg>>
    /\ iter = 1
    /\ calls = [NoCalls EXCEPT !.retrieve = 1, !.synthesize = 1]
    /\ dropped = FALSE
    /\ after_drop = <<>>
    /\ nominal = TRUE
    /\ eval_reply = NoReply

RecordingStarted == RecordingOf(1)

DetectorInit == RecordingStarted /\ NoSharing

MaxSegment == max_silence_frames + ExtraChunks

\* the chunks of a list that are no silence frames
Interruptions(chunks) ==
    Cardinality({i \in 1..Len(chunks) : chunks[i] # SilenceChunk})

\* the client of a long recording: silence frames, and a few other chunks
LongOffered ==
    IF Len(audio_chunks) >= MaxSegment THEN {}
    ELSE IF Interruptions(audio_chunks) < MaxInterruptions THEN AudioChunks
    ELSE {SilenceChunk}

DetectLong == DetectWith(LongOffered, MaxSegment) /\ UNCHANGED sharing

DetectorNext ==
    \/ DetectLong
    \/ Disconnect

DetectorSpec == DetectorInit /\ [][DetectorNext]_vars

\* A recording without end: the client may always send one more chunk.
DetectForever == DetectWith(AudioChunks, MaxChunks) /\ UNCHANGED sharing

DetectorLiveNext ==
    \/ DetectForever
    \/ Disconnect

\* fair delivery: a receive_bytes() that can return does return
DetectorLiveSpec ==
    DetectorInit /\ [][DetectorLiveNext]_vars /\ WF_vars(DetectForever)

\* A short recording in which the classifier may fail on a frame.
DetectFrames ==
    /\ DetectWith(IF Len(audio_chunks) < MaxFrames
                  THEN AudioChunks \cup {ErrorChunk}
                  ELSE {},
                  MaxFrames)
    /\ UNCHANGED sharing

FrameSpec == DetectorInit /\ [][DetectFrames \/ Disconnect]_vars

\* ------------------------------------------------- two sessions, one vad
\* vad.vad is created once, when vad.py is imported, and every session's
\* detector calls its is_speech (vad.py:11, 46).  The classifier keeps state
\* from frame to frame: after a frame with speech it reports speech for
\* VadHangover more frames.  Here a chunk's cls is what the frame holds, and
\* the verdict is computed from it and from the classifier's state; the two
\* detectors run on one event loop and interleave at receive_bytes().
VadHangover == 1

\* vad.is_speech(data[:320], SAMPLE_RATE) in the state v
is_speech(v, frame) == frame.cls = "speech" \/ v > 0
\* the state of the classifier after that call
VadAfter(v, frame) ==
    IF frame.len < MinFrameBytes THEN v
    ELSE IF frame.cls = "speech" THEN VadHangover
    ELSE IF v > 0 THEN v - 1
    ELSE 0
\* the chunk as the detector sees it
Heard(v, frame) ==
    IF frame.len < MinFrameBytes THEN frame
    ELSE IF is_speech(v, frame) THEN SpeechChunk
    ELSE SilenceChunk

ConcurrentInit ==
    /\ RecordingStarted
    /\ queue = <<>>
    /\ vad = 0
    /\ peer = [running |-> TRUE, silence_frames |-> 0, frames |-> 0]
    /\ solo = [running |-> TRUE, silence_frames |-> 0, vad |-> 0]

\* one read of this session's detector; solo follows the same frames with a
\* classifier that no other session uses
DetectShared ==
    \E frame \in AudioChunks :
        LET heard == Heard(vad, frame)
            alone == Heard(solo.vad, frame)
        IN  /\ DetectWith(IF Len(audio_chunks) < MaxChunks THEN {heard} ELSE {},
                          MaxChunks)
            /\ IF inbound' = heard
               THEN /\ vad' = VadAfter(vad, frame)
                    /\ solo' = [running |-> ~VadBreak(solo.silence_frames, alone),
                                silence_frames |->
                                    VadCount(solo.silence_frames, alone),
                                vad |-> VadAfter(solo.vad, frame)]
               ELSE /\ vad' = vad
                    /\ solo' = [solo EXCEPT !.running = FALSE]
            /\ UNCHANGED <<peer, queue>>

\* one read of the other session's detector
PeerDetect ==
    /\ peer.running
    /\ peer.frames < MaxPeerFrames
    /\ \E frame \in {SpeechChunk, SilenceChunk} :
          /\ vad' = VadAfter(vad, frame)
          /\ peer' = [running |->
                          ~VadBreak(peer.silence_frames, Heard(vad, frame)),
                      silence_frames |->
                          VadCount(peer.silence_frames, Heard(vad, frame)),
                      frames |-> peer.frames + 1]
    /\ UNCHANGED <<interview, extraction, solo, queue>>

ConcurrentSpec ==
    ConcurrentInit /\ [][DetectShared \/ PeerDetect \/ Disconnect]_vars

\* ------------------------------------------- what the client has in flight
\* websocket.receive_bytes() (vad.py:32) returns the oldest message the client
\* sent and the server has not read; nothing in a turn empties the connection
\* of the messages of the turn before (main.py:108-117).  The client here
\* streams its microphone from a start_record until the server's next message
\* reaches it, and each message is tagged with the start_record it answers.
ClientSend ==
    /\ connected
    /\ Len(queue) < MaxQueued
    /\ sent # <<>>
    /\ sent[Len(sent)] = StartRecordMsg
    /\ \E chunk \in AudioChunks \cup {EmptyChunk} :
          queue' = Append(queue, [chunk |-> chunk,
                                  turn |-> CountKind(sent, "start_record")])
    /\ UNCHANGED <<interview, extraction, vad, peer, solo>>

\* one receive_bytes() of the detector: the oldest message in flight
DetectQueued ==
    /\ queue # <<>>
    /\ DetectWith({Head(queue).chunk} \ {EmptyChunk}, MaxChunks)
    /\ inbound' = Head(queue).chunk
    /\ queue' = Tail(queue)
    /\ UNCHANGED <<vad, peer, solo>>

\* a session of two questions, taken at the first start_record
QueueInit == RecordingOf(2) /\ NoSharing

QueueSpec ==
    /\ QueueInit
    /\ [][\/ ClientSend
           \/ DetectQueued
           \/ Transcribe
           \/ SendAck
           \/ LoopHead
           \/ Retrieve
           \/ SendQuestion
           \/ Synthesize
           \/ SendAudio
           \/ SendStartRecord
           \/ Evaluate
           \/ SendComplete]_vars

\* the run of silence-classified frames at the end of a list of chunks:
\* the silence frames after the last speech frame, undersized chunks apart
TrailingSilence(chunks) ==
    Cardinality({i \in 1..Len(chunks) :
                    /\ chunks[i] = SilenceChunk
                    /\ \A j \in (i + 1)..Len(chunks) : chunks[j] # SpeechChunk})

AllSilence(chunks) == \A i \in 1..Len(chunks) : chunks[i] = SilenceChunk

\* ------------------------------------------------------------------ claims

\* C1: in a session configured with a positive-integer questionCount the
\* session log never holds more turns than questionCount.
C1_LogWithinBudget ==
    question_count >= 1 => Len(session_log) <= question_count

\* the budget is used up in a session in which a collaborator failed or the
\* client deviated
C1_Witness ==
    /\ question_count = 2
    /\ Len(session_log) = question_count
    /\ ~nominal

\* C2: the engine leaves the turn loop for the final evaluation exactly when
\* remaining_questions is 0, never above 0 and never with another value.
C2_FinalizingExactlyAtZero ==
    [][(pc = "loop_head" /\ pc' # "loop_head")
          => (pc' = "evaluate" <=> remaining_questions = 0)]_vars

\* C3: at the head of the turn loop the turns logged and the questions
\* remaining add up to the configured questionCount.
C3_BudgetAtLoopHead ==
    pc = "loop_head" => Len(session_log) + remaining_questions = question_count

\* the loop head after a completed turn and a later turn that failed
C3_Witness ==
    /\ pc = "loop_head"
    /\ Len(session_log) = 1
    /\ iter = 2
    /\ sent # <<>>
    /\ Last(sent) = TurnErrorMsg

\* C4: once the channel has closed during a recording, no turn is appended
\* and remaining_questions keeps its value.
C4_NoTurnAfterDrop ==
    [][dropped' => (session_log' = session_log
                    /\ remaining_questions' = remaining_questions)]_vars

\* C5: after the channel has closed during a recording the engine calls no
\* collaborator and attempts at most one outbound message, an error notice.
C5_QuietAfterDrop ==
    dropped => after_drop \in {<<>>, <<"error">>}

\* C6: the messages of a turn go out as question, audio, start_record; the
\* detector reads only after start_record; ack follows the end of recording.
C6_TurnOrder ==
    /\ \A i \in 1..Len(sent) :
         /\ sent[i].kind = "audio" => (i > 1 /\ sent[i - 1].kind = "question")
         /\ sent[i].kind = "start_record" => (i > 1 /\ sent[i - 1].kind = "audio")
         /\ sent[i].kind = "ack" => (i > 1 /\ sent[i - 1].kind = "start_record")
    /\ pc = "recording" => (/\ detector = "running"
                            /\ sent # <<>>
                            /\ Last(sent) = StartRecordMsg)
    /\ detector = "running" => pc = "recording"
    /\ pc = "send_ack" => detector = "ended"

\* a turn acknowledged after a recording of two chunks
C6_Witness ==
    /\ Len(sent) >= 4
    /\ Last(sent).kind = "ack"
    /\ Len(session_log) = 1

\* C7: a session of n >= 1 questions in which every collaborator succeeds and
\* the client answers every start_record ends with n ack messages followed
\* by one complete message with four metrics and a non-empty feedback, and
\* without any error message.
C7_HealthySession ==
    (pc \in Terminal /\ nominal /\ question_count >= 1)
        => /\ pc = "Completed"
           /\ CountKind(sent, "ack") = question_count
           /\ CountKind(sent, "complete") = 1
           /\ CountKind(sent, "error") = 0
           /\ Last(sent).kind = "complete"
           /\ DOMAIN Last(sent).metrics = MetricKeys
           /\ Last(sent).text \notin {"", Null}

C7_Witness ==
    /\ pc = "Completed"
    /\ nominal
    /\ question_count = 2

\* C8: a recording that yields no chunk ends the iteration at once: nothing
\* is transcribed, logged, counted or sent, and the loop runs again.
C8_SkipOnNoAudio ==
    [][(pc = "recording" /\ pc' # "recording" /\ audio_chunks' = <<>>)
          => /\ pc' = "loop_head"
             /\ session_log' = session_log
             /\ remaining_questions' = remaining_questions
             /\ LoopCondition(remaining_questions')
             /\ sent' = sent
             /\ calls' = calls]_vars

\* the loop head after a skipped turn
C8_Witness ==
    /\ pc = "loop_head"
    /\ iter >= 1
    /\ connected
    /\ session_log = <<>>
    /\ sent # <<>>
    /\ Last(sent) = StartRecordMsg

\* C9: while the channel is open, an exception of a collaborator in a turn
\* is answered with one error message and the loop goes on.
C9_CollaboratorErrorContinues ==
    [][(pc = "turn_except" /\ exc = "collaborator" /\ connected /\ pc' # pc)
          => /\ pc' = "loop_head"
             /\ sent' = Append(sent, TurnErrorMsg)]_vars

\* the loop head after a turn in which question retrieval raised
C9_Witness ==
    /\ pc = "loop_head"
    /\ connected
    /\ calls.retrieve >= 1
    /\ calls.synthesize = 0
    /\ sent = <<TurnErrorMsg>>

\* the scoring backend was asked and gave no usable reply
EvalBackendFailed ==
    /\ session_log # <<>>
    /\ \/ ~MISTRAL_API_KEY
       \/ eval_reply.status # "200"
       \/ eval_reply.shape # "object"
       \/ \E x \in {eval_reply.fluency, eval_reply.confidence,
                    eval_reply.content_accuracy, eval_reply.response_time} :
             x.t \in {"str", "null"}

MalformedConfig == pc # "receive_config" /\ question_count < 1

\* C11: after a malformed first message the session sends at most one error
\* notice, sends no question, start_record, ack or complete message, and
\* ends in the error state.
C11_MalformedConfigRejected ==
    MalformedConfig
        => /\ CountKind(sent, "error") <= 1
           /\ \A kind \in {"question", "start_record", "ack", "complete"} :
                 CountKind(sent, kind) = 0
           /\ pc \in Terminal => pc = "Errored"

\* C12 as stated: while the channel stays connected the detector ends the
\* segment if and only if the run of silence-classified frames has reached
\* the threshold or the source has yielded a zero-length chunk, and the
\* zero-length chunk is not emitted.
C12_EndsOnSilenceOrEmptyOnly ==
    [][(pc = "recording" /\ connected)
          => /\ pc' # "recording"
                  <=> \/ TrailingSilence(audio_chunks') >= max_silence_frames
                      \/ inbound' = EmptyChunk
             /\ inbound' = EmptyChunk => audio_chunks' = audio_chunks]_vars

\* C12, amended: while the channel stays connected the detector ends the
\* segment if and only if the run of silence-classified frames has reached
\* the threshold, the source has yielded a zero-length chunk, or the inbound
\* message was no binary message (a text frame, on which receive_bytes
\* raises); neither the zero-length chunk nor the text frame is emitted.
C12_EndsOnSilenceEmptyOrNoBinary ==
    [][(pc = "recording" /\ connected)
          => /\ pc' # "recording"
                  <=> \/ TrailingSilence(audio_chunks') >= max_silence_frames
                      \/ inbound' = EmptyChunk
                      \/ inbound' = TextFrame
             /\ inbound' \in {EmptyChunk, TextFrame}
                  => audio_chunks' = audio_chunks]_vars

\* the threshold reached in a segment that holds more than silence frames
C12_Witness ==
    /\ pc = "transcribe"
    /\ connected
    /\ inbound = SilenceChunk
    /\ Len(audio_chunks) > max_silence_frames
    /\ TrailingSilence(audio_chunks) = max_silence_frames

\* C13: a recording of silence frames only ends at the 50th chunk, not
\* before and not after, and the segment holds all 50 chunks.
C13_SilenceRunEndsAtThreshold ==
    AllSilence(audio_chunks)
        => /\ pc = "recording" => Len(audio_chunks) < max_silence_frames
           /\ (pc # "recording" /\ inbound = SilenceChunk)
                => Len(audio_chunks) = max_silence_frames

\* the segment of exactly 50 silence frames
C13_Witness ==
    /\ pc = "transcribe"
    /\ inbound = SilenceChunk
    /\ AllSilence(audio_chunks)
    /\ Len(audio_chunks) = max_silence_frames

\* C14: under fair delivery of chunks every recording ends.
C14_RecordingEnds == (detector = "running") ~> (detector # "running")

\* C15: transcription never aborts a turn: whatever fails, whisper_transcribe
\* returns the placeholder text, and the turn is appended with the returned
\* text, counted against remaining_questions and acknowledged with that text.
C15_TranscriptionNeverAborts ==
    [][/\ (pc = "transcribe" /\ pc' # pc)
            => /\ pc' = "send_ack"
               /\ session_log' =
                     Append(session_log, Turn(current_question, answer_text', iter))
               /\ remaining_questions' = remaining_questions - 1
               /\ (\/ ~GROQ_API_KEY
                   \/ SumLen(audio_chunks) < MinAudioBytes
                   \/ nominal /\ ~nominal')
                     => answer_text' = PLACEHOLDER_TRANSCRIPT
       /\ (pc = "send_ack" /\ connected /\ pc' # pc)
            => /\ answer_text = Last(session_log).answer
               /\ sent' = Append(sent, AckMsg(Last(session_log).answer))]_vars

\* a turn logged, counted and acknowledged with the placeholder although the
\* key was set
C15_Witness ==
    /\ pc = "loop_head"
    /\ GROQ_API_KEY
    /\ session_log # <<>>
    /\ Last(session_log).answer = PLACEHOLDER_TRANSCRIPT
    /\ sent # <<>>
    /\ Last(sent) = AckMsg(PLACEHOLDER_TRANSCRIPT)
    /\ remaining_questions = question_count - Len(session_log)

\* C16: when synthesis fails it returns the empty byte string without
\* raising; the engine sends the empty binary message and then start_record,
\* the turn goes on to the recording and no error message is sent.
C16_SilentQuestionProceeds ==
    [][/\ (pc = "synthesize" /\ pc' # pc)
            => /\ pc' = "send_audio"
               /\ sent' = sent
               /\ (nominal /\ ~nominal') => audio_bytes' = ""
       /\ (pc = "send_audio" /\ audio_bytes = "" /\ connected /\ pc' # pc)
            => /\ pc' = "send_start_record"
               /\ sent' = Append(sent, AudioMsg)
       /\ (pc = "send_start_record" /\ connected /\ pc' # pc)
            => /\ pc' = "recording"
               /\ sent' = Append(sent, StartRecordMsg)]_vars

\* the recording of the first turn after the generated question was sent and
\* its synthesis failed
C16_Witness ==
    /\ pc = "recording"
    /\ connected
    /\ iter = 1
    /\ ~nominal
    /\ audio_chunks = <<>>
    /\ inbound = NoInbound
    /\ sent = <<QuestionMsg("Where are you traveling to?"), AudioMsg, StartRecordMsg>>

\* C17: question retrieval never propagates a failure to the session, and
\* without the store or the key it returns a question of the default list of
\* the category (of the tourist list for an unknown category).
C17_RetrievalNeverFails ==
    [][(pc = "retrieve" /\ pc' # pc)
          => /\ pc' = "send_question"
             /\ (~visa_collection \/ ~MISTRAL_API_KEY)
                  => current_question' \in DefaultQuestions(visa_type)]_vars

\* C18: the question text sent to the client is never empty.
C18_QuestionNeverEmpty ==
    \A i \in 1..Len(sent) : sent[i].kind = "question" => sent[i].text # ""

\* the scoring backend replied with an object whose scores are all numbers
\* or missing
ScoresUsed ==
    /\ session_log # <<>>
    /\ MISTRAL_API_KEY
    /\ eval_reply.status = "200"
    /\ eval_reply.shape = "object"
    /\ \A x \in {eval_reply.fluency, eval_reply.confidence,
                 eval_reply.content_accuracy, eval_reply.response_time} :
          ~FloatRaises(x)

\* C19: the metrics of every complete message hold exactly the four keys;
\* a key missing from the backend's reply has the default value.
C19_MetricsFullyPopulated ==
    /\ \A i \in 1..Len(sent) :
          sent[i].kind = "complete" => DOMAIN sent[i].metrics = MetricKeys
    /\ (pc = "Completed" /\ ScoresUsed)
          => /\ eval_reply.fluency = Missing => Last(sent).metrics.fluency = 70
             /\ eval_reply.confidence = Missing
                  => Last(sent).metrics.confidence = 70
             /\ eval_reply.content_accuracy = Missing
                  => Last(sent).metrics.contentAccuracy = 70
             /\ eval_reply.response_time = Missing
                  => Last(sent).metrics.responseTime = 70

\* a complete message after a reply that held one score only
C19_Witness ==
    /\ pc = "Completed"
    /\ ScoresUsed
    /\ eval_reply.fluency = Num(90)
    /\ eval_reply.confidence = Missing
    /\ Last(sent).kind = "complete"
    /\ Last(sent).metrics =
          [fluency |-> 90, confidence |-> 70, contentAccuracy |-> 70,
           responseTime |-> 70]

\* C20: every metrics value returned by evaluate_session and sent in a
\* complete message lies between 1.0 and 10.0.
C20_MetricsInRange ==
    /\ pc = "send_complete"
          => \A k \in MetricKeys : evaluation.metrics[k] \in 10..100
    /\ \A i \in 1..Len(sent) :
          sent[i].kind = "complete"
              => \A k \in MetricKeys : sent[i].metrics[k] \in 10..100

\* C30: the metrics of a complete message that follows a parsed reply of the
\* scoring backend are normalised key by key: a key holding a valid number
\* keeps it, and a key that is missing, non-numeric or out of range holds a
\* default (the 7.0 of the lookup or the key's entry of default_metrics).
C30_NormalisedKeyByKey ==
    LET score(k) ==
            CASE k = "fluency" -> eval_reply.fluency
              [] k = "confidence" -> eval_reply.confidence
              [] k = "contentAccuracy" -> eval_reply.content_accuracy
              [] k = "responseTime" -> eval_reply.response_time
        valid(x) == x.t = "num" /\ x.v \in 10..100
        offending(x) ==
            \/ x.t \in {"absent", "str", "null"}
            \/ x.t = "num" /\ x.v \notin 10..100
    IN  (/\ pc = "Completed"
         /\ session_log # <<>>
         /\ MISTRAL_API_KEY
         /\ eval_reply.status = "200"
         /\ eval_reply.shape = "object"
         /\ Last(sent).kind = "complete")
            => \A k \in MetricKeys :
                  /\ valid(score(k)) => Last(sent).metrics[k] = score(k).v
                  /\ offending(score(k))
                        => Last(sent).metrics[k] \in {70, default_metrics[k]}

\* C26: what a fallback-guarded operation returns tells its caller which
\* source produced it: the evaluation that the scoring backend's reply gave
\* is never the one the default substitution would have given.
C26_ProvenanceTold ==
    (pc = "send_complete" /\ ScoresUsed) => evaluation # DefaultEvaluation

\* C27: a speech frame puts the counter back to zero, so the counter is the
\* run of silence frames since the last speech frame; a segment that ends by
\* silence ends on 50 silence frames with no speech frame among them, at
\* least 50 chunks after any speech frame it holds.
C27_SpeechResetsCounter ==
    /\ pc = "recording"
          => /\ inbound = SpeechChunk => silence_frames = 0
             /\ silence_frames = TrailingSilence(audio_chunks)
             /\ silence_frames < max_silence_frames
    /\ (pc # "recording" /\ inbound = SilenceChunk)
          => /\ TrailingSilence(audio_chunks) = max_silence_frames
             /\ \A i \in 1..Len(audio_chunks) :
                   audio_chunks[i] = SpeechChunk
                       => Len(audio_chunks) >= i + max_silence_frames

\* a speech frame at position 49 of an otherwise silent stream: after the
\* 51st silence frame the recording still runs, the counter is at 3
C27_Witness ==
    /\ pc = "recording"
    /\ Len(audio_chunks) = max_silence_frames + 2
    /\ audio_chunks[max_silence_frames - 1] = SpeechChunk
    /\ \A i \in 1..Len(audio_chunks) :
          i # max_silence_frames - 1 => audio_chunks[i] = SilenceChunk
    /\ silence_frames = 3

\* C28: every read of the detector that meets a non-empty chunk appends that
\* chunk to the segment, before and whatever its classification, and no other
\* read changes the segment; the transcription is that of the audio of the
\* collected chunks together.
C28_SegmentIsWhatWasReceived ==
    [][/\ (pc = "recording" /\ connected' = connected)
            => /\ inbound' \in AudioChunks
                    => audio_chunks' = Append(audio_chunks, inbound')
               /\ inbound' \notin AudioChunks => audio_chunks' = audio_chunks
       /\ (pc = "transcribe" /\ pc' # pc)
            => \E reply \in AsrReplies :
                  answer_text' = whisper_transcribe(SumLen(audio_chunks),
                                                    GROQ_API_KEY, reply)]_vars

\* a segment about to be transcribed: an undersized chunk, then a speech
\* frame, ended by the empty chunk
C28_Witness ==
    /\ pc = "transcribe"
    /\ audio_chunks = <<SmallChunk, SpeechChunk>>
    /\ inbound = EmptyChunk
    /\ SumLen(audio_chunks) = SmallChunkBytes + MinFrameBytes

\* C29: a read of the detector that meets a chunk of fewer than 320 bytes, or
\* a frame on which the classifier raises, appends the chunk to the segment,
\* leaves the silence counter as it was and leaves the detector running.
C29_UnclassifiedIsNeutral ==
    [][(/\ pc = "recording"
        /\ connected' = connected
        /\ \/ inbound'.len \in 1..(MinFrameBytes - 1)
           \/ inbound' = ErrorChunk)
          => /\ audio_chunks' = Append(audio_chunks, inbound')
             /\ silence_frames' = silence_frames
             /\ pc' = "recording"
             /\ detector' = "running"]_vars

\* after a silence frame, an undersized chunk and a frame the classifier
\* failed on: both collected, the counter still at 1
C29_Witness ==
    /\ pc = "recording"
    /\ audio_chunks = <<SilenceChunk, SmallChunk, ErrorChunk>>
    /\ inbound = ErrorChunk
    /\ silence_frames = 1

\* C22: no collaborator call blocks the session forever: a session that is
\* at the retrieval, the synthesis, the transcription or the final
\* evaluation eventually gets past it, whether or not the collaborator
\* responds.
C22_CollaboratorCallsReturn ==
    /\ (pc = "retrieve") ~> (pc # "retrieve")
    /\ (pc = "synthesize") ~> (pc # "synthesize")
    /\ (pc = "transcribe") ~> (pc # "transcribe")
    /\ (pc = "evaluate") ~> (pc # "evaluate")

\* C23: extract_question_from_text returns (trimmed) the first substring
\* that ends in a question mark and starts at the beginning of the text or
\* just after a period or newline, and the trimmed text when there is none.
C23_FirstQuestionReturned ==
    LET \* such substrings of the text, as pairs of positions: through one
        \* character or more to a question mark, with no period inside
        candidates ==
            {c \in (1..Len(text)) \X (1..Len(text)) :
                /\ c[1] < c[2]
                /\ c[1] = 1 \/ text[c[1] - 1] \in {".", "\n"}
                /\ text[c[2]] = "?"
                /\ \A i \in c[1]..c[2] : text[i] # "."}
        \* the first of them: the leftmost start and its nearest end
        a == Least({c[1] : c \in candidates})
        q == Least({c[2] : c \in {d \in candidates : d[1] = a}})
    IN  (extractor = "question" /\ extracted.done)
            => extracted.value =
                  IF candidates = {} THEN StripChars(text)
                  ELSE StripChars(SubSeq(text, a, q))

\* C24: extract_json_from_text returns what the content of the first fenced
\* block tagged as JSON parses to; without such a block, or when its content
\* does not parse, what the first brace-delimited substring of the text
\* parses to; and the empty result when that does not parse either.
C24_TaggedBlockThenFirstBraces ==
    LET tagged == {i \in 1..Len(text) :
                      /\ text[i] = FenceJson
                      /\ \E j \in (i + 1)..Len(text) : text[j] = FenceEnd}
        opened == Least(tagged)
        block ==
            IF tagged = {} THEN Raised
            ELSE json_loads(SubSeq(text, opened + 1,
                     Least({j \in (opened + 1)..Len(text) :
                               text[j] = FenceEnd}) - 1))
        opening == {i \in 1..Len(text) : text[i] \in {BraceMember, Brace}}
        closing == {i \in (Least(opening) + 1)..Len(text) : text[i] = BraceEnd}
        braces ==
            IF opening = {} THEN Raised
            ELSE IF closing = {} THEN Raised
            ELSE json_loads(SubSeq(text, Least(opening), Least(closing)))
    IN  (extractor = "json" /\ extracted.done)
            => extracted.value =
                  IF ~block.raised THEN block.value
                  ELSE IF ~braces.raised THEN braces.value
                  ELSE EmptyObject_

\* C25: extraction is idempotent: extract_question_from_text applied to what
\* it returned returns it again, and extract_json_from_text applied to the
\* serialised form of the object it returned returns that object again.
C25_ExtractionIdempotent ==
    /\ (extractor = "question" /\ again.done) => again.value = extracted.value
    /\ (extractor = "json" /\ again.done)
          => /\ again.value = extracted.value
             /\ json_loads(json_dumps(extracted.value)) = Returned(again.value)

\* C21: the end-of-speech decisions of a session are those it would take if
\* no other session existed: its silence counter, and whether its recording
\* still runs, are those of the same frames classified without the other
\* session.
C21_SessionsIndependent ==
    /\ (pc = "recording") = solo.running
    /\ pc = "recording" => silence_frames = solo.silence_frames

\* C31: whatever the text, extract_json_from_text returns a dict: the
\* extracted object, or the empty dict.
C31_AlwaysADict ==
    (extractor = "json" /\ extracted.done)
        => \A i \in 1..Len(extracted.value) :
              "key" \in DOMAIN extracted.value[i]

\* C32: a message the detector reads during a turn's recording was sent by
\* the client after that turn's start_record: it carries the number of the
\* latest start_record the server has sent.
C32_OnlyThisTurnsChunks ==
    [][(pc = "recording" /\ queue # <<>> /\ queue' = Tail(queue))
           => Head(queue).turn = CountKind(sent, "start_record")]_vars

\* C33: a session with a positive-integer questionCount whose every step is
\* eventually taken ends: it reaches Completed or Errored.
C33_SessionEnds ==
    (pc = "loop_head" /\ question_count >= 1) ~> (pc \in Terminal)

\* C34: whenever a recording starts, its silence counter is zero and its
\* segment is empty, whatever the recording of the turn before counted.
C34_CounterStartsAtZero ==
    [][(pc # "recording" /\ pc' = "recording")
           => (silence_frames' = 0 /\ audio_chunks' = <<>>)]_vars

\* the second recording of a session has started, after a first one that was
\* answered, and nothing of it has been read
C34_Witness ==
    /\ pc = "recording"
    /\ inbound = NoInbound
    /\ CountKind(sent, "start_record") = 2
    /\ CountKind(sent, "ack") = 1
    /\ Len(session_log) = 1
    /\ silence_frames = 0

\* C35: the acks sent are as many as the turns of the log or one fewer, and
\* the i-th ack carries the answer of the i-th turn: each ack was sent for
\* the turn appended last, and no turn was acknowledged twice.
C35_AcksFollowTheLog ==
    LET acks == SelectSeq(sent, LAMBDA m : m.kind = "ack")
    IN  /\ Len(acks) <= Len(session_log)
        /\ Len(acks) >= Len(session_log) - 1
        /\ \A i \in 1..Len(acks) : acks[i].text = session_log[i].answer

\* two turns acknowledged, one with a transcript and one with the
\* placeholder
C35_Witness ==
    /\ CountKind(sent, "ack") = 2
    /\ Len(session_log) = 2
    /\ session_log[1].answer # session_log[2].answer
    /\ sent[Len(sent)] = AckMsg(session_log[2].answer)

\* C36: a session sends at most one complete message; once it is sent it is
\* the last message of the session, which is Completed; and in a session
\* with a positive-integer questionCount the log then holds exactly
\* questionCount turns.
C36_CompleteOnceAndLast ==
    /\ CountKind(sent, "complete") <= 1
    /\ CountKind(sent, "complete") = 1
          => /\ Last(sent).kind = "complete"
             /\ pc = "Completed"
             /\ question_count >= 1 => Len(session_log) = question_count

\* complete was sent in a session of two questions in which a turn failed
\* and was asked again
C36_Witness ==
    /\ CountKind(sent, "complete") = 1
    /\ question_count = 2
    /\ CountKind(sent, "ack") = 2
    /\ ~nominal

\* C37: a turn that ends in the handler of a collaborator's exception has
\* appended no Turn and has not counted a question: the log holds turns of
\* earlier iterations only, the log and the counter still add up to
\* questionCount, and the handler changes neither.  Every answer in the log
\* is a text the transcription returned.
C37_FailedTurnConsumesNothing ==
    [][LET Answers == {whisper_transcribe(MinAudioBytes, TRUE, reply) :
                          reply \in AsrReplies}
       IN  /\ (pc = "turn_except" /\ exc = "collaborator" /\ pc' # pc)
                => /\ session_log' = session_log
                   /\ remaining_questions' = remaining_questions
                   /\ \A i \in 1..Len(session_log) :
                         session_log[i].timestamp < iter
                   /\ Len(session_log) + remaining_questions = question_count
           /\ \A i \in 1..Len(session_log') :
                 session_log'[i].answer \in Answers]_vars

\* two turns of a two-question session ended in the handler, and both
\* questions are still to be asked
C37_Witness ==
    /\ pc = "loop_head"
    /\ iter = 2
    /\ sent = <<TurnErrorMsg, TurnErrorMsg>>
    /\ question_count = 2
    /\ remaining_questions = 2
    /\ session_log = <<>>

====
